---------------------------- MODULE Spec2Model ----------------------------
(***************************************************************************)
(* Model of meshgenerator2.py: generate_color_atlas (the atlas builder)    *)
(* and create_tiled_meshes (the mesh tiler), run in sequence by __main__.  *)
(*                                                                         *)
(* Conventions.                                                            *)
(*  - A color key is the 4-tuple <<r, g, b, a>>.                           *)
(*  - orig_pixels is a sequence of rows; Python's orig_pixels[y, x] is     *)
(*    orig_pixels[y + 1][x + 1] here (TLA+ sequences are 1-based).         *)
(*  - The numpy array "texture" is kept as the sequence of slice           *)
(*    assignments made to the zero array, in program order; TexelAt reads  *)
(*    a texel as numpy would (last assignment covering it, else zeros).    *)
(*  - The dict color_to_uv is kept as its entries [key, uv] in insertion   *)
(*    order; UVGet is dict.get.                                            *)
(*  - A UV value (x_start + x_end) / (2 * tex_size) is kept as the exact   *)
(*    fraction [un, vn, den]; the float division is exact for the power-   *)
(*    of-two sizes used, so equal floats are equal fractions.              *)
(*  - tex_size / cols and col * cell_w are IEEE-754 double operations and  *)
(*    are modelled bit for bit (FloatDiv, MulTrunc).                       *)
(***************************************************************************)
EXTENDS Integers, Sequences, FiniteSets, TLC

VARIABLES
    orig_w, orig_h, orig_pixels,          \* the decoded RGBA image
    pc,                                   \* position of the program
    unique_colors, num_colors, tex_size,  \* generate_color_atlas locals
    cols, rows, texture, color_to_uv,
    max_tris, cols_per_mesh, rows_per_mesh, \* create_tiled_meshes locals
    num_meshes_x, num_meshes_y, tile_x, tile_y,
    mesh_paths, skipped_tiles,
    files,                                \* the .obj files written, by tile
    tiles                                 \* rectangles enumerated so far

imageVars == <<orig_w, orig_h, orig_pixels>>
atlasVars == <<unique_colors, num_colors, tex_size, cols, rows, texture,
               color_to_uv>>
tilerVars == <<max_tris, cols_per_mesh, rows_per_mesh, num_meshes_x,
               num_meshes_y, tile_x, tile_y, mesh_paths, skipped_tiles,
               files, tiles>>
vars == <<imageVars, pc, atlasVars, tilerVars>>

---------------------------------------------------------------------------
(* Bounds of the model.                                                    *)

MaxW == 3
MaxH == 3
MaxPixels == 4
MaxTris == 8
MaxNumColors == 200
MaxGridSide == 49
ScaledTexSize == 1

(* Program constants.                                                      *)
TexSize == 1024
DefaultMaxTris == 10000
MantissaBits == 53
DigitBits == 8
Radix == 2 ^ DigitBits
NumDigits == (MantissaBits + DigitBits) \div DigitBits

Transparent == <<0, 0, 0, 0>>
\* Two transparent colors (one with a non-zero RGB), and three visible ones,
\* two of which differ only in alpha.
Palette == {Transparent, <<0, 255, 0, 0>>, <<255, 0, 0, 255>>,
            <<255, 0, 0, 128>>, <<0, 0, 255, 255>>}

---------------------------------------------------------------------------
(* Integer helpers for math.ceil, math.sqrt, math.isqrt.                   *)

RECURSIVE CeilSqrtFrom(_, _)
CeilSqrtFrom(c, n) == IF c * c >= n THEN c ELSE CeilSqrtFrom(c + 1, n)

\* math.ceil(math.sqrt(n)): sqrt is correctly rounded and n < 2^53, so the
\* result is the least c with c*c >= n.
CeilSqrt(n) == CeilSqrtFrom(0, n)

RECURSIVE IsqrtFrom(_, _)
IsqrtFrom(c, n) == IF (c + 1) * (c + 1) > n THEN c ELSE IsqrtFrom(c + 1, n)

\* math.isqrt(n), n >= 0.
Isqrt(n) == IsqrtFrom(0, n)

\* math.ceil(a / b) for small non-negative a and b > 0.
CeilDiv(a, b) == (a + b - 1) \div b

Min(a, b) == IF a <= b THEN a ELSE b

---------------------------------------------------------------------------
(* IEEE-754 double arithmetic on the values the atlas builder computes.    *)
(* A positive double >= 1 is [int |-> I, frac |-> bits], the bits after    *)
(* the binary point, most significant first, with                          *)
(* BitLen(I) + Len(bits) = MantissaBits.  Long division and multiplication *)
(* work on digits of DigitBits bits, NumDigits of them.                    *)

RECURSIVE BitLen(_)
BitLen(n) == IF n = 0 THEN 0 ELSE 1 + BitLen(n \div 2)

\* Bit i (1 = most significant) of NumDigits digits of DigitBits bits each.
BitOf(digits, i) ==
    (digits[((i - 1) \div DigitBits) + 1]
        \div (2 ^ (DigitBits - 1 - ((i - 1) % DigitBits)))) % 2

\* The first n digits of r / b (0 <= r < b) after the binary point, and
\* the remainder left.
RECURSIVE FracDigits(_, _, _, _)
FracDigits(r, b, n, acc) ==
    IF n = 0 THEN [digits |-> acc, rem |-> r]
    ELSE FracDigits((Radix * r) % b, b, n - 1, Append(acc, (Radix * r) \div b))

\* bits + 1 in the last place: [bits, carry].
Incr(bits) ==
    IF \A i \in 1..Len(bits) : bits[i] = 1
    THEN [bits |-> [i \in 1..Len(bits) |-> 0], carry |-> 1]
    ELSE LET j == CHOOSE j \in 1..Len(bits) :
                     bits[j] = 0 /\ \A i \in (j + 1)..Len(bits) : bits[i] = 1
         IN  [bits |-> [i \in 1..Len(bits) |->
                           IF i < j THEN bits[i] ELSE IF i = j THEN 1 ELSE 0],
              carry |-> 0]

\* a / b as a double, for integers a >= b >= 1 (round to nearest, ties to
\* even).
FloatDiv(a, b) ==
    LET I == a \div b
        F == MantissaBits - BitLen(I)
        q == FracDigits(a % b, b, NumDigits, <<>>)
        bits == [i \in 1..F |-> BitOf(q.digits, i)]
        last == IF F > 0 THEN bits[F] ELSE I % 2
        sticky == q.rem # 0
                  \/ \E i \in (F + 2)..(NumDigits * DigitBits) : BitOf(q.digits, i) = 1
        up == BitOf(q.digits, F + 1) = 1 /\ (sticky \/ last = 1)
        inc == Incr(bits)
    IN  IF up THEN [int |-> I + inc.carry, frac |-> inc.bits]
        ELSE [int |-> I, frac |-> bits]

\* Digit j (1 = most significant) of a bit sequence padded with zeros on
\* the right.
DigitAt(bits, j) ==
    LET Bit(i) == IF i <= Len(bits) THEN bits[i] ELSE 0
        RECURSIVE Sum(_)
        Sum(t) == IF t = DigitBits THEN 0
                  ELSE Bit(DigitBits * (j - 1) + 1 + t) * (2 ^ (DigitBits - 1 - t))
                       + Sum(t + 1)
    IN  Sum(0)

\* The exact product k * 0.digits, least significant digit first: the
\* fraction digits of the product and the carry into the integer part.
RECURSIVE MulDigits(_, _, _, _, _)
MulDigits(k, digits, j, carry, out) ==
    IF j = 0 THEN [digits |-> out, carry |-> carry]
    ELSE LET t == k * digits[j] + carry
         IN  MulDigits(k, digits, j - 1, t \div Radix, <<t % Radix>> \o out)

\* int(k * x) for an integer k >= 0 and a double x >= 1: the product is
\* rounded to a double (nearest, ties to even), then truncated.
MulTrunc(k, x) ==
    IF k = 0 THEN 0
    ELSE
    LET m == MulDigits(k, [j \in 1..NumDigits |-> DigitAt(x.frac, j)],
                       NumDigits, 0, <<>>)
        P == k * x.int + m.carry
        keep == MantissaBits - BitLen(P)
        F == NumDigits * DigitBits
        last == IF keep > 0 THEN BitOf(m.digits, keep) ELSE P % 2
        sticky == \E j \in (keep + 2)..F : BitOf(m.digits, j) = 1
        up == BitOf(m.digits, keep + 1) = 1 /\ (sticky \/ last = 1)
    IN  IF up /\ (\A i \in 1..keep : BitOf(m.digits, i) = 1) THEN P + 1 ELSE P

---------------------------------------------------------------------------
(* The image.                                                              *)

Pixel(y, x) == orig_pixels[y + 1][x + 1]
Alpha(color) == color[4]

\* Only fully opaque colors collected.
VisibleColors_OpaqueOnly ==
    {Pixel(y, x) : <<y, x>> \in {p \in (0..orig_h - 1) \X (0..orig_w - 1) :
                                    Alpha(Pixel(p[1], p[2])) = 255}}

\* The set built by lines 14-19: the colors of the pixels with alpha > 0.
VisibleColors ==
    {Pixel(y, x) : <<y, x>> \in {p \in (0..orig_h - 1) \X (0..orig_w - 1) :
                                    Alpha(Pixel(p[1], p[2])) > 0}}

\* list(set): every order is possible.
Enumerations(S) ==
    {s \in [1..Cardinality(S) -> S] : \A i, j \in DOMAIN s : i # j => s[i] # s[j]}

Images(w, h) == [1..h -> [1..w -> Palette]]

---------------------------------------------------------------------------
(* generate_color_atlas.                                                   *)

\* The texture as created by np.zeros: no assignment yet.
EmptyTexture == <<>>

\* texture[py, px]: the last slice assignment covering the texel, else 0.
RECURSIVE TexelFrom(_, _, _, _)
TexelFrom(fills, i, px, py) ==
    IF i = 0 THEN Transparent
    ELSE IF /\ fills[i].x_start <= px /\ px < fills[i].x_end
            /\ fills[i].y_start <= py /\ py < fills[i].y_end
         THEN fills[i].color
         ELSE TexelFrom(fills, i - 1, px, py)

TexelAt(px, py) == TexelFrom(texture, Len(texture), px, py)

\* No truncation.
Truncate_Never(colors, max_colors) == colors

\* Lines 29-32: keep the first max_colors colors.
Truncate(colors, max_colors) ==
    IF Len(colors) > max_colors THEN SubSeq(colors, 1, max_colors) ELSE colors

\* Line 71: the last color, forced to full opacity.
LastOpaque(colors) ==
    LET last == colors[Len(colors)] IN <<last[1], last[2], last[3], 255>>

\* Lines 43-44, 50-53 and 66-69: the cell boundaries int(k * cell) for
\* k = 0..n, cell a double; entry k + 1 of the sequence is boundary k.
RECURSIVE Bounds(_, _, _)
Bounds(n, cell, acc) ==
    IF Len(acc) > n THEN acc
    ELSE Bounds(n, cell, Append(acc, MulTrunc(Len(acc), cell)))

\* Lines 46-55 and 63-71: every slice assignment, in program order, for a
\* grid of c columns with column boundaries xb and row boundaries yb.
Fills(colors, n, c, r, xb, yb, lastOpaque) ==
    [j \in 1..(c * r) |->
        LET i == j - 1
            col == i % c
            row == i \div c
        IN  [x_start |-> xb[col + 1], x_end |-> xb[col + 2],
             y_start |-> yb[row + 1], y_end |-> yb[row + 2],
             color |-> IF i < n THEN colors[j] ELSE lastOpaque]]

\* The right edge of the cell in place of its center.
UVCenter_RightEdge(f, ts) ==
    [un |-> 2 * f.x_end, vn |-> 2 * f.y_end, den |-> 2 * ts]

\* Lines 57-59: the center of the cell, as a fraction of 2 * tex_size.
UVCenter(f, ts) ==
    [un |-> f.x_start + f.x_end, vn |-> f.y_start + f.y_end, den |-> 2 * ts]

\* Line 60: the dict, as its entries in insertion order.
UVEntries(colors, n, fills, ts) ==
    [i \in 1..n |-> [key |-> colors[i], uv |-> UVCenter(fills[i], ts)]]

\* Lines 9-23: read the image and collect the visible colors.
generate_color_atlas_collect ==
    /\ pc = "start"
    /\ \E order \in Enumerations(VisibleColors) :
          /\ unique_colors' = order
          /\ num_colors' = Len(order)
    /\ pc' = "collected"
    /\ UNCHANGED <<imageVars, tex_size, cols, rows, texture, color_to_uv,
                   tilerVars>>

\* Lines 25-75: truncate, lay out the grid, fill the texture, return.
\* math.ceil(num_colors / cols) raises ZeroDivisionError when cols = 0.
generate_color_atlas_pack(ts) ==
    /\ pc = "collected"
    /\ tex_size' = ts
    /\ unique_colors' = Truncate(unique_colors, ts * ts)
    /\ num_colors' = Len(unique_colors')
    /\ cols' = CeilSqrt(num_colors')
    /\ IF cols' = 0
       THEN /\ pc' = "atlas_raised"
            /\ UNCHANGED <<rows, texture, color_to_uv>>
       ELSE /\ rows' = CeilDiv(num_colors', cols')
            /\ \E xb \in {Bounds(cols', FloatDiv(ts, cols'), <<>>)},
                  yb \in {Bounds(rows', FloatDiv(ts, rows'), <<>>)},
                  lastOpaque \in {LastOpaque(unique_colors')} :
                  texture' = Fills(unique_colors', num_colors', cols', rows',
                                   xb, yb, lastOpaque)
            /\ color_to_uv' = UVEntries(unique_colors', num_colors',
                                        texture', ts)
            /\ pc' = "atlas_returned"
    /\ UNCHANGED <<imageVars, tilerVars>>

---------------------------------------------------------------------------
(* create_tiled_meshes.                                                    *)

\* np.any in place of np.all.
is_tile_fully_transparent_Any(x_start, x_end, y_start, y_end) ==
    \E y \in y_start..(y_end - 1) : \E x \in x_start..(x_end - 1) :
        Alpha(Pixel(y, x)) = 0

\* Lines 77-80: np.all(tile_alpha == 0) over the tile's slice.
is_tile_fully_transparent(x_start, x_end, y_start, y_end) ==
    \A y \in y_start..(y_end - 1) : \A x \in x_start..(x_end - 1) :
        Alpha(Pixel(y, x)) = 0

\* Line 137: color_to_uv.get(color, (0, 0)).
RECURSIVE UVGetFrom(_, _, _)
UVGetFrom(entries, i, color) ==
    IF i = 0 THEN [un |-> 0, vn |-> 0, den |-> 1]
    ELSE IF entries[i].key = color THEN entries[i].uv
    ELSE UVGetFrom(entries, i - 1, color)

UVGet(entries, color) == UVGetFrom(entries, Len(entries), color)

\* A budget counted in pixels, not triangles.
MaxPixelsPerMesh_NoHalving(budget) == budget

\* Line 89: two triangles per pixel.
MaxPixelsPerMesh(budget) == budget \div 2

\* Lines 103-106: the rectangle of tile (tx, ty).
TileRect(tx, ty, cpm, rpm, w, h) ==
    [x_start |-> tx * cpm, x_end |-> Min((tx + 1) * cpm, w),
     y_start |-> ty * rpm, y_end |-> Min((ty + 1) * rpm, h)]

\* Lines 126-127: the pixels <<y, x>> of a tile in scan order.
TilePixels(t) ==
    LET tw == t.x_end - t.x_start
        th == t.y_end - t.y_start
    IN  [k \in 1..(tw * th) |->
            <<t.y_start + ((k - 1) \div tw), t.x_start + ((k - 1) % tw)>>]

\* The vertices without the Y flip.
VertexLines_NoFlip(x, y, h) ==
    << [kind |-> "v", x |-> x,     y |-> y,     z |-> 0],
       [kind |-> "v", x |-> x + 1, y |-> y,     z |-> 0],
       [kind |-> "v", x |-> x + 1, y |-> y + 1, z |-> 0],
       [kind |-> "v", x |-> x,     y |-> y + 1, z |-> 0] >>

\* Lines 131-134: the four "v" lines of pixel (x, y).
VertexLines(x, y, h) ==
    << [kind |-> "v", x |-> x,     y |-> h - y,     z |-> 0],
       [kind |-> "v", x |-> x + 1, y |-> h - y,     z |-> 0],
       [kind |-> "v", x |-> x + 1, y |-> h - y - 1, z |-> 0],
       [kind |-> "v", x |-> x,     y |-> h - y - 1, z |-> 0] >>

\* Lines 137-141: the four "vt" lines, u and 1 - v.
UVLines(uv) ==
    LET line == [kind |-> "vt", un |-> uv.un, vn |-> uv.den - uv.vn,
                 den |-> uv.den]
    IN  <<line, line, line, line>>

\* The face written without the visibility test.
FaceLines_Always(color, vertex_index, uv_index) ==
    << [kind |-> "f",
        v  |-> <<vertex_index, vertex_index + 1, vertex_index + 2,
                 vertex_index + 3>>,
        vt |-> <<uv_index, uv_index + 1, uv_index + 2, uv_index + 3>>] >>

\* Lines 144-145: the "f" line, written only for a pixel with alpha > 0.
FaceLines(color, vertex_index, uv_index) ==
    IF Alpha(color) > 0
    THEN << [kind |-> "f",
             v  |-> <<vertex_index, vertex_index + 1, vertex_index + 2,
                      vertex_index + 3>>,
             vt |-> <<uv_index, uv_index + 1, uv_index + 2, uv_index + 3>>] >>
    ELSE <<>>

\* Lines 147-148.
NextIndex(index) == index + 4

\* Lines 126-148: the lines written for the pixels from position k on.
RECURSIVE PixelLoop(_, _, _, _, _, _)
PixelLoop(pixels, k, vertex_index, uv_index, h, entries) ==
    IF k > Len(pixels) THEN <<>>
    ELSE LET y == pixels[k][1]
             x == pixels[k][2]
             color == Pixel(y, x)
         IN  VertexLines(x, y, h)
             \o UVLines(UVGet(entries, color))
             \o FaceLines(color, vertex_index, uv_index)
             \o PixelLoop(pixels, k + 1, NextIndex(vertex_index),
                          NextIndex(uv_index), h, entries)

\* Lines 116-148: the file of one tile (the comment line, then the pixels).
MeshFile(tx, ty, t, h, entries) ==
    <<[kind |-> "#", tile_x |-> tx, tile_y |-> ty]>>
    \o PixelLoop(TilePixels(t), 1, 1, 1, h, entries)

\* Lines 84-98: the tiling. max_pixels_per_mesh // cols_per_mesh raises
\* ZeroDivisionError when cols_per_mesh = 0.
create_tiled_meshes_begin ==
    /\ pc = "atlas_returned"
    /\ \E budget \in (1..MaxTris) \cup {DefaultMaxTris} : max_tris' = budget
    /\ cols_per_mesh' = Min(orig_w, Isqrt(MaxPixelsPerMesh(max_tris')))
    /\ IF cols_per_mesh' = 0
       THEN /\ pc' = "tiles_raised"
            /\ UNCHANGED <<rows_per_mesh, num_meshes_x, num_meshes_y>>
       ELSE /\ rows_per_mesh' = Min(orig_h, MaxPixelsPerMesh(max_tris')
                                                \div cols_per_mesh')
            /\ num_meshes_x' = CeilDiv(orig_w, cols_per_mesh')
            /\ num_meshes_y' = CeilDiv(orig_h, rows_per_mesh')
            /\ pc' = "tiling"
    /\ mesh_paths' = <<>>
    /\ skipped_tiles' = 0
    /\ tile_x' = 0
    /\ tile_y' = 0
    /\ UNCHANGED <<imageVars, atlasVars, files, tiles>>

\* Lines 100-148: one iteration of the tile loops.
create_tiled_meshes_tile ==
    /\ pc = "tiling"
    /\ tile_y < num_meshes_y
    /\ \E t \in {TileRect(tile_x, tile_y, cols_per_mesh, rows_per_mesh,
                          orig_w, orig_h)} :
          /\ tiles' = Append(tiles, [tile_x |-> tile_x, tile_y |-> tile_y,
                                     x_start |-> t.x_start, x_end |-> t.x_end,
                                     y_start |-> t.y_start, y_end |-> t.y_end])
          /\ IF is_tile_fully_transparent(t.x_start, t.x_end, t.y_start, t.y_end)
             THEN /\ skipped_tiles' = skipped_tiles + 1
                  /\ UNCHANGED <<mesh_paths, files>>
             ELSE /\ mesh_paths' = Append(mesh_paths, <<tile_x, tile_y>>)
                  /\ files' = (<<tile_x, tile_y>> :>
                                  MeshFile(tile_x, tile_y, t, orig_h, color_to_uv))
                              @@ files
                  /\ UNCHANGED skipped_tiles
    /\ IF tile_x + 1 < num_meshes_x
       THEN /\ tile_x' = tile_x + 1
            /\ UNCHANGED tile_y
       ELSE /\ tile_x' = 0
            /\ tile_y' = tile_y + 1
    /\ UNCHANGED <<imageVars, pc, atlasVars, max_tris, cols_per_mesh,
                   rows_per_mesh, num_meshes_x, num_meshes_y>>

\* Lines 150-151: the loops are over; return mesh_paths.
create_tiled_meshes_return ==
    /\ pc = "tiling"
    /\ tile_y = num_meshes_y
    /\ pc' = "tiles_returned"
    /\ UNCHANGED <<imageVars, atlasVars, tilerVars>>

---------------------------------------------------------------------------
(* Initial states.                                                         *)

AtlasUnset ==
    /\ unique_colors = <<>> /\ num_colors = 0 /\ tex_size = 0
    /\ cols = 0 /\ rows = 0 /\ texture = EmptyTexture
    /\ color_to_uv = <<>>

TilerUnset ==
    /\ max_tris = 0 /\ cols_per_mesh = 0 /\ rows_per_mesh = 0
    /\ num_meshes_x = 0 /\ num_meshes_y = 0 /\ tile_x = 0 /\ tile_y = 0
    /\ mesh_paths = <<>> /\ skipped_tiles = 0
    /\ files = <<>> /\ tiles = <<>>

\* Every image of at most MaxPixels pixels over the palette.
Init ==
    /\ orig_w \in 1..MaxW
    /\ orig_h \in 1..MaxH
    /\ orig_w * orig_h <= MaxPixels
    /\ orig_pixels \in Images(orig_w, orig_h)
    /\ pc = "start"
    /\ AtlasUnset
    /\ TilerUnset

\* The i-th of a family of pairwise different opaque colors.
Color(i) == <<i % 256, i \div 256, 0, 255>>

\* The color counts tried: every count to MaxNumColors, and every full
\* square grid to MaxGridSide columns.
ColorCounts == (0..MaxNumColors) \cup {c * c : c \in 1..MaxGridSide}

\* The state after line 22 for a one-row image of n pairwise different
\* visible colors (n = 0: a single transparent pixel), for each n.
InitAtlas ==
    /\ \E n \in ColorCounts :
          /\ orig_w = (IF n = 0 THEN 1 ELSE n)
          /\ orig_pixels = <<IF n = 0 THEN <<Transparent>>
                              ELSE [x \in 1..n |-> Color(x)]>>
          /\ unique_colors = [x \in 1..n |-> Color(x)]
          /\ num_colors = n
    /\ orig_h = 1
    /\ pc = "collected"
    /\ tex_size = 0 /\ cols = 0 /\ rows = 0 /\ texture = EmptyTexture
    /\ color_to_uv = <<>>
    /\ TilerUnset

\* __main__, lines 153-164: the atlas builder, then the tiler on its result.
Next ==
    \/ generate_color_atlas_collect
    \/ generate_color_atlas_pack(TexSize)
    \/ create_tiled_meshes_begin
    \/ create_tiled_meshes_tile
    \/ create_tiled_meshes_return

Spec == Init /\ [][Next]_vars

\* The packing step alone, on each color count.
NextAtlas == generate_color_atlas_pack(TexSize)

SpecAtlas == InitAtlas /\ [][NextAtlas]_vars

\* The atlas builder with the texture side scaled down to ScaledTexSize, so
\* that images of a few pixels exceed the capacity tex_size * tex_size.
NextScaled ==
    \/ generate_color_atlas_collect
    \/ generate_color_atlas_pack(ScaledTexSize)

SpecScaled == Init /\ [][NextScaled]_vars

---------------------------------------------------------------------------
(* Properties of the mesh tiler.                                           *)

ImagePixels == (0..orig_h - 1) \X (0..orig_w - 1)

\* The pixels <<y, x>> inside a rectangle.
RectPixels(t) ==
    {p \in ImagePixels : /\ t.x_start <= p[2] /\ p[2] < t.x_end
                         /\ t.y_start <= p[1] /\ p[1] < t.y_end}

HasVisiblePixel(t) == \E p \in RectPixels(t) : Alpha(Pixel(p[1], p[2])) > 0

\* The colors of the pixels with alpha > 0.
VisiblePixelColors ==
    {Pixel(p[1], p[2]) : p \in {q \in ImagePixels : Alpha(Pixel(q[1], q[2])) > 0}}

TilerEnded == pc \in {"tiles_returned", "tiles_raised"}

\* The enumerated rectangles partition the image.
TilesPartition ==
    /\ \A p \in ImagePixels :
          Cardinality({i \in 1..Len(tiles) : p \in RectPixels(tiles[i])}) = 1
    /\ \A i \in 1..Len(tiles) :
          /\ tiles[i].x_start < tiles[i].x_end
          /\ tiles[i].y_start < tiles[i].y_end
          /\ 0 <= tiles[i].x_start /\ tiles[i].x_end <= orig_w
          /\ 0 <= tiles[i].y_start /\ tiles[i].y_end <= orig_h

\* C1: for every w >= 1, h >= 1 and max_tris >= 1, the tile rectangles that
\* create_tiled_meshes enumerates (skipped ones included) partition
\* [0,w) x [0,h): every pixel lies in exactly one tile, no tile is empty and
\* no tile extends past the image edge.
C1_TilesPartitionImage == (TilerEnded /\ max_tris >= 1) => TilesPartition

\* What holds of the code: the partition is complete whenever the tiler
\* returns, which it does for every max_tris >= 2.
TilesPartitionWhenReturned ==
    /\ pc = "tiles_returned" => TilesPartition
    /\ pc = "tiles_raised" <=> (TilerEnded /\ max_tris < 2)

TileArea(t) == (t.x_end - t.x_start) * (t.y_end - t.y_start)

\* C2: every tile computed by create_tiled_meshes has
\* (x_end - x_start) * (y_end - y_start) * 2 <= max_tris, with
\* cols_per_mesh = min(w, isqrt(max_tris // 2)) and
\* rows_per_mesh = min(h, (max_tris // 2) // cols_per_mesh).
C2_TilesWithinBudget ==
    /\ \A i \in 1..Len(tiles) : TileArea(tiles[i]) * 2 <= max_tris
    /\ pc \in {"tiling", "tiles_returned"} =>
          /\ cols_per_mesh * cols_per_mesh <= max_tris \div 2
          /\ cols_per_mesh * rows_per_mesh * 2 <= max_tris
          /\ cols_per_mesh <= orig_w /\ rows_per_mesh <= orig_h
          /\ \A i \in 1..Len(tiles) :
                /\ tiles[i].x_end - tiles[i].x_start <= cols_per_mesh
                /\ tiles[i].y_end - tiles[i].y_start <= rows_per_mesh

\* A tile that exhausts the budget, beside other tiles.
C2_Witness ==
    /\ pc = "tiles_returned"
    /\ Len(tiles) > 1
    /\ \E i \in 1..Len(tiles) :
          TileArea(tiles[i]) > 1 /\ TileArea(tiles[i]) * 2 = max_tris

TileName(t) == <<t.tile_x, t.tile_y>>

\* The names of the tiles i..Len(ts) that have a visible pixel, in order.
RECURSIVE VisibleTileNames(_, _)
VisibleTileNames(ts, i) ==
    IF i > Len(ts) THEN <<>>
    ELSE (IF HasVisiblePixel(ts[i]) THEN <<TileName(ts[i])>> ELSE <<>>)
         \o VisibleTileNames(ts, i + 1)

InSeq(x, sq) == \E i \in 1..Len(sq) : sq[i] = x

\* C3: a tile is skipped (no file opened, name not in mesh_paths) iff every
\* pixel of its rectangle has alpha = 0; the returned list holds exactly one
\* entry per tile with a pixel of alpha > 0, in row-major tile order, and
\* returned entries + skipped tiles = the number of tiles.
C3_SkippedIffTransparent ==
    /\ \A i \in 1..Len(tiles) :
          /\ InSeq(TileName(tiles[i]), mesh_paths) <=> HasVisiblePixel(tiles[i])
          /\ TileName(tiles[i]) \in DOMAIN files <=> HasVisiblePixel(tiles[i])
    /\ DOMAIN files = {mesh_paths[i] : i \in 1..Len(mesh_paths)}
    /\ mesh_paths = VisibleTileNames(tiles, 1)
    /\ Len(mesh_paths) + skipped_tiles = Len(tiles)
    /\ \A i \in 1..Len(tiles) :
          /\ tiles[i].tile_y = (i - 1) \div num_meshes_x
          /\ tiles[i].tile_x = (i - 1) % num_meshes_x
    /\ pc = "tiles_returned" => Len(tiles) = num_meshes_x * num_meshes_y

\* A run that skipped a tile, wrote a tile, and wrote a tile holding a
\* transparent pixel.
C3_Witness ==
    /\ pc = "tiles_returned"
    /\ skipped_tiles > 0
    /\ \E i \in 1..Len(tiles) :
          /\ InSeq(TileName(tiles[i]), mesh_paths)
          /\ \E p \in RectPixels(tiles[i]) : Alpha(Pixel(p[1], p[2])) = 0

\* The tile a file was written for.
TileOf(name) == tiles[CHOOSE i \in 1..Len(tiles) : TileName(tiles[i]) = name]

LinesOfKind(file, kind) == SelectSeq(file, LAMBDA line : line.kind = kind)

VisibleIn(t) == {p \in RectPixels(t) : Alpha(Pixel(p[1], p[2])) > 0}

\* C4: the mesh of a tile that is not skipped has exactly 4 * (tile pixel
\* count) vertex lines, 4 * (tile pixel count) UV lines, and as many face
\* lines as the tile has pixels with alpha > 0 (at least 1, at most the
\* pixel count).
C4_LineCounts ==
    \A name \in DOMAIN files :
        LET t == TileOf(name)
            faces == Len(LinesOfKind(files[name], "f"))
        IN  /\ Len(LinesOfKind(files[name], "v")) = 4 * TileArea(t)
            /\ Len(LinesOfKind(files[name], "vt")) = 4 * TileArea(t)
            /\ faces = Cardinality(VisibleIn(t))
            /\ 1 <= faces /\ faces <= TileArea(t)

\* A mesh with fewer faces than pixels.
C4_Witness ==
    \E name \in DOMAIN files :
        /\ TileArea(TileOf(name)) > 2
        /\ Len(LinesOfKind(files[name], "f")) = 2

\* The corners of pixel (x, y), in the order written.
Corners(x, y) ==
    << <<x, orig_h - y>>, <<x + 1, orig_h - y>>, <<x + 1, orig_h - y - 1>>,
       <<x, orig_h - y - 1>> >>

Keys(entries) == {entries[i].key : i \in 1..Len(entries)}

\* The map's (u, v) of a color that is a key of the map.
EntryOf(color) ==
    color_to_uv[CHOOSE i \in 1..Len(color_to_uv) : color_to_uv[i].key = color].uv

\* The "vt" line of a pixel of the given color: u and 1 - v of its map
\* entry, or of (0, 0) when the color is no key of the map.
ExpectedVT(color) ==
    IF color \in Keys(color_to_uv)
    THEN [kind |-> "vt", un |-> EntryOf(color).un,
          vn |-> EntryOf(color).den - EntryOf(color).vn,
          den |-> EntryOf(color).den]
    ELSE [kind |-> "vt", un |-> 0, vn |-> 1, den |-> 1]

\* The face lines that reference vertex index i.
FacesUsing(faces, i) ==
    {j \in 1..Len(faces) : \E c \in 1..4 : faces[j].v[c] = i}

\* C9: vertex and UV indices are 1-based and advance by 4 per pixel whether
\* or not a face is emitted: the face of the k-th pixel of the tile (if the
\* pixel is visible) references the vertices and UVs 4(k-1)+1 .. 4(k-1)+4,
\* which are the ones written for that pixel, at (x, H-y), (x+1, H-y),
\* (x+1, H-y-1), (x, H-y-1) with z = 0; no face references an index beyond
\* those written and no two faces share a vertex.
C9_FacesReferenceOwnPixel ==
    \A name \in DOMAIN files :
        LET t == TileOf(name)
            pixels == TilePixels(t)
            V == LinesOfKind(files[name], "v")
            T == LinesOfKind(files[name], "vt")
            F == LinesOfKind(files[name], "f")
            visible == SelectSeq([k \in 1..Len(pixels) |-> k],
                                 LAMBDA k : Alpha(Pixel(pixels[k][1], pixels[k][2])) > 0)
        IN  /\ Len(F) = Len(visible)
            /\ \A j \in 1..Len(F) :
                  LET k == visible[j]
                      y == pixels[k][1]
                      x == pixels[k][2]
                  IN  \A c \in 1..4 :
                        /\ F[j].v[c] = 4 * (k - 1) + c
                        /\ F[j].vt[c] = 4 * (k - 1) + c
                        /\ F[j].v[c] \in 1..Len(V)
                        /\ F[j].vt[c] \in 1..Len(T)
                        /\ V[F[j].v[c]] = [kind |-> "v", x |-> Corners(x, y)[c][1],
                                           y |-> Corners(x, y)[c][2], z |-> 0]
                        /\ T[F[j].vt[c]] = ExpectedVT(Pixel(y, x))
            /\ \A i \in 1..Len(V) : Cardinality(FacesUsing(F, i)) <= 1

\* A mesh in which a transparent pixel comes before a visible one.
C9_Witness ==
    \E name \in DOMAIN files :
        LET F == LinesOfKind(files[name], "f")
        IN  Len(F) >= 2 /\ F[1].v[1] > 1 /\ F[2].v[1] > F[1].v[1] + 4

IsFallback(line) == line.un = 0 /\ line.vn = line.den

\* C10: with no more distinct visible colors than the atlas holds, every
\* pixel with a face has the UV of the map entry of its own color (never
\* the (0,0) fallback), and the atlas texel containing that UV holds the
\* pixel's RGBA color; the fallback is written only for pixels with
\* alpha = 0, which have no face.
C10_VisibilityConsistent ==
    Cardinality(VisiblePixelColors) <= tex_size * tex_size =>
    \A name \in DOMAIN files :
        LET pixels == TilePixels(TileOf(name))
            T == LinesOfKind(files[name], "vt")
            F == LinesOfKind(files[name], "f")
        IN  /\ \A j \in 1..Len(F) :
                  LET k == ((F[j].v[1] - 1) \div 4) + 1
                      color == Pixel(pixels[k][1], pixels[k][2])
                  IN  /\ color \in Keys(color_to_uv)
                      /\ \A c \in 1..4 :
                            /\ T[F[j].vt[c]] = ExpectedVT(color)
                            /\ ~IsFallback(T[F[j].vt[c]])
                      /\ TexelAt((EntryOf(color).un * tex_size) \div EntryOf(color).den,
                                 (EntryOf(color).vn * tex_size) \div EntryOf(color).den)
                            = color
            /\ \A k \in 1..Len(pixels) :
                  IsFallback(T[4 * (k - 1) + 1]) =>
                      /\ Alpha(Pixel(pixels[k][1], pixels[k][2])) = 0
                      /\ \A j \in 1..Len(F) : F[j].v[1] # 4 * (k - 1) + 1

\* A mesh holding faces of two colors that differ only in alpha, and a
\* transparent pixel.
C10_Witness ==
    \E name \in DOMAIN files :
        LET pixels == TilePixels(TileOf(name))
            colors == {Pixel(pixels[k][1], pixels[k][2]) : k \in 1..Len(pixels)}
        IN  /\ <<255, 0, 0, 255>> \in colors
            /\ <<255, 0, 0, 128>> \in colors
            /\ \E color \in colors : Alpha(color) = 0

AllTransparent == \A p \in ImagePixels : Alpha(Pixel(p[1], p[2])) = 0

\* C6: for an image whose pixels all have alpha = 0, generate_color_atlas
\* completes normally with zero colors (an empty UV map) and a defined
\* atlas, and create_tiled_meshes produces zero mesh files.
C6_AllTransparentCompletes ==
    AllTransparent =>
        /\ pc # "atlas_raised"
        /\ pc \in {"atlas_returned", "tiling", "tiles_returned"} =>
              num_colors = 0 /\ color_to_uv = <<>>
        /\ pc = "tiles_returned" => mesh_paths = <<>> /\ DOMAIN files = {}

---------------------------------------------------------------------------
(* Properties of the atlas builder.                                        *)

Range(sq) == {sq[i] : i \in 1..Len(sq)}

NoDuplicates(sq) == Cardinality(Range(sq)) = Len(sq)

AtlasEnded == pc \in {"atlas_returned", "atlas_raised"}

\* C7: if the distinct visible colors outnumber the capacity tex_size^2,
\* exactly tex_size^2 colors are retained (each one a color of a pixel with
\* alpha > 0, none twice), the rest dropped, and no error is raised;
\* otherwise every distinct visible color is retained.
C7_TruncatesToCapacity ==
    AtlasEnded =>
        /\ Range(unique_colors) \subseteq VisiblePixelColors
        /\ NoDuplicates(unique_colors)
        /\ num_colors = Len(unique_colors)
        /\ IF Cardinality(VisiblePixelColors) > tex_size * tex_size
           THEN num_colors = tex_size * tex_size /\ pc = "atlas_returned"
           ELSE Range(unique_colors) = VisiblePixelColors
        /\ pc = "atlas_returned" => Keys(color_to_uv) = Range(unique_colors)

\* An image with more visible colors than the atlas holds, packed.
C7_Witness ==
    /\ pc = "atlas_returned"
    /\ Cardinality(VisiblePixelColors) > tex_size * tex_size
    /\ Cardinality(VisiblePixelColors) - num_colors >= 2

Rect(f) == <<f.x_start, f.x_end, f.y_start, f.y_end>>

Disjoint(a, b) == a[2] <= b[1] \/ b[2] <= a[1]

XIntervals == {<<texture[i].x_start, texture[i].x_end>> : i \in 1..num_colors}
YIntervals == {<<texture[i].y_start, texture[i].y_end>> : i \in 1..num_colors}

\* C5: every entry (u, v) of the returned map has 0 <= u < 1 and
\* 0 <= v < 1, and two different color keys never share an atlas cell:
\* their cell rectangles are non-empty and disjoint and their (u, v) differ.
\* Disjointness is stated on the column and row intervals: two different
\* intervals never overlap and no two keys have the same pair of intervals,
\* so two different keys differ in an interval and their cells are disjoint.
C5_UVInRangeAndCellsDisjoint ==
    pc = "atlas_returned" =>
        /\ Len(color_to_uv) = num_colors
        /\ Cardinality(Keys(color_to_uv)) = num_colors
        /\ \A i \in 1..num_colors :
              /\ color_to_uv[i].key = unique_colors[i]
              /\ 0 <= color_to_uv[i].uv.un
              /\ color_to_uv[i].uv.un < color_to_uv[i].uv.den
              /\ 0 <= color_to_uv[i].uv.vn
              /\ color_to_uv[i].uv.vn < color_to_uv[i].uv.den
              /\ color_to_uv[i].uv.un = texture[i].x_start + texture[i].x_end
              /\ color_to_uv[i].uv.vn = texture[i].y_start + texture[i].y_end
              /\ texture[i].x_start < texture[i].x_end
              /\ texture[i].y_start < texture[i].y_end
        /\ \A a, b \in XIntervals : a # b => Disjoint(a, b)
        /\ \A a, b \in YIntervals : a # b => Disjoint(a, b)
        /\ Cardinality({Rect(texture[i]) : i \in 1..num_colors}) = num_colors
        /\ Cardinality({color_to_uv[i].uv : i \in 1..num_colors}) = num_colors

\* A packed grid of several columns and rows whose cell boundaries are not
\* all the exact quotients (the double product rounds below the integer).
C5_Witness ==
    /\ pc = "atlas_returned"
    /\ cols > 2 /\ rows > 2
    /\ \E i \in 1..num_colors :
          texture[i].x_end # ((((i - 1) % cols) + 1) * tex_size) \div cols

\* C8: after the assigned and the leftover cells are filled the atlas has no
\* undefined texel: every texel of the tex_size x tex_size texture lies in
\* exactly one grid cell, each cell with index < num_colors holds its color
\* key's RGBA, and each leftover cell holds the RGB of the last packed color
\* with alpha = 255.  A texel (px, py) lies in exactly one cell iff px lies
\* in exactly one column interval and py in exactly one row interval.
C8_NoUndefinedTexel ==
    pc = "atlas_returned" =>
        LET xs == {<<texture[i].x_start, texture[i].x_end>> : i \in 1..Len(texture)}
            ys == {<<texture[i].y_start, texture[i].y_end>> : i \in 1..Len(texture)}
        IN  /\ Len(texture) = cols * rows
            /\ Cardinality({Rect(texture[i]) : i \in 1..Len(texture)}) = cols * rows
            /\ Cardinality(xs) = cols /\ Cardinality(ys) = rows
            /\ \A px \in 0..(tex_size - 1) :
                  Cardinality({a \in xs : a[1] <= px /\ px < a[2]}) = 1
            /\ \A py \in 0..(tex_size - 1) :
                  Cardinality({a \in ys : a[1] <= py /\ py < a[2]}) = 1
            /\ \A i \in 1..Len(texture) :
                  texture[i].color =
                      IF i <= num_colors THEN unique_colors[i]
                      ELSE <<unique_colors[num_colors][1],
                             unique_colors[num_colors][2],
                             unique_colors[num_colors][3], 255>>

=============================================================================
